---------------------------- MODULE Spec2Model ----------------------------
(***************************************************************************)
(* Registration intake service (src/index.js): POST /api/register with its *)
(* middleware chain (multer upload, validateRegistration), the handler's   *)
(* three suspension points (findOne, uploadToImgBB, insertOne), the        *)
(* detached Google Sheets append, and GET /api/registration/:ticketId.     *)
(*                                                                         *)
(* JavaScript strings are sequences of one-character strings, so that      *)
(* trim, toLowerCase, split and the two regular expressions are computed   *)
(* and not assumed.  A JavaScript value is a record [t, v] whose tag t is  *)
(* one of "undef", "null", "str", "num", "bool", "arr", "obj".             *)
(***************************************************************************)
EXTENDS Integers, Sequences, FiniteSets, TLC

-----------------------------------------------------------------------------
(* JavaScript values *)

Undef == [t |-> "undef", v |-> <<>>]

Str(s) == [t |-> "str", v |-> s]

Num(n) == [t |-> "num", v |-> n]

Bool(b) == [t |-> "bool", v |-> b]

Arr(a) == [t |-> "arr", v |-> a]

Obj == [t |-> "obj", v |-> <<>>]

Null == [t |-> "null", v |-> <<>>]

IsStr(x) == x.t = "str"

\* JavaScript truthiness, as used by every `!field` test of the validator
Truthy(x) ==
  CASE x.t = "undef" -> FALSE
    [] x.t = "null"  -> FALSE
    [] x.t = "str"   -> Len(x.v) > 0
    [] x.t = "num"   -> x.v # 0
    [] x.t = "bool"  -> x.v
    [] OTHER         -> TRUE

\* the characters \s matches and String.prototype.trim removes
WhiteSpace == {" ", "\t", "\n"}

Digits == <<"0", "1", "2", "3", "4", "5", "6", "7", "8", "9">>

UpperChars == <<"A", "B", "C", "D", "E", "F", "G", "H", "I", "J", "K", "L", "M",
                "N", "O", "P", "Q", "R", "S", "T", "U", "V", "W", "X", "Y", "Z">>

LowerChars == <<"a", "b", "c", "d", "e", "f", "g", "h", "i", "j", "k", "l", "m",
                "n", "o", "p", "q", "r", "s", "t", "u", "v", "w", "x", "y", "z">>

IsDigit(c) == \E i \in 1..Len(Digits) : Digits[i] = c

ToLowerChar(c) ==
  IF \E i \in 1..Len(UpperChars) : UpperChars[i] = c
  THEN LowerChars[CHOOSE i \in 1..Len(UpperChars) : UpperChars[i] = c]
  ELSE c

\* String.prototype.toLowerCase
ToLowerCase(s) == [i \in 1..Len(s) |-> ToLowerChar(s[i])]

\* String.prototype.trim
Trim(s) ==
  IF \A i \in 1..Len(s) : s[i] \in WhiteSpace
  THEN <<>>
  ELSE LET first == CHOOSE i \in 1..Len(s) :
                      /\ s[i] \notin WhiteSpace
                      /\ \A j \in 1..(i - 1) : s[j] \in WhiteSpace
           last  == CHOOSE i \in 1..Len(s) :
                      /\ s[i] \notin WhiteSpace
                      /\ \A j \in (i + 1)..Len(s) : s[j] \in WhiteSpace
       IN SubSeq(s, first, last)

RECURSIVE NatJsString(_)
NatJsString(n) ==
  IF n < 10 THEN <<Digits[n + 1]>>
  ELSE NatJsString(n \div 10) \o <<Digits[(n % 10) + 1]>>

RECURSIVE Join(_)
\* Array.prototype.join(",") over an array of strings
Join(a) ==
  IF Len(a) = 0 THEN <<>>
  ELSE IF Len(a) = 1 THEN a[1].v
  ELSE a[1].v \o <<",">> \o Join(Tail(a))

\* the string a value is coerced to by RegExp.prototype.test
JsString(x) ==
  CASE x.t = "str"   -> x.v
    [] x.t = "num"   -> NatJsString(x.v)
    [] x.t = "bool"  -> IF x.v THEN <<"t", "r", "u", "e">>
                        ELSE <<"f", "a", "l", "s", "e">>
    [] x.t = "arr"   -> Join(x.v)
    [] x.t = "obj"   -> <<"[", "o", "b", "j", "e", "c", "t", " ",
                          "O", "b", "j", "e", "c", "t", "]">>
    [] OTHER         -> <<"u", "n", "d", "e", "f", "i", "n", "e", "d">>

\* Array.prototype.includes on an array of string literals: strict equality
Includes(list, x) == IsStr(x) /\ x.v \in list

-----------------------------------------------------------------------------
(* validateRegistration *)

\* /^[^\s@]+@[^\s@]+\.[^\s@]+$/ .test(s)
emailRegex(s) ==
  \E k \in 2..Len(s) : \E m \in (k + 2)..(Len(s) - 1) :
    /\ s[k] = "@"
    /\ s[m] = "."
    /\ \A i \in 1..Len(s) : i # k => s[i] \notin (WhiteSpace \cup {"@"})

\* /^\+91[6-9]\d{9}$/ .test(s)
phoneRegex(s) ==
  /\ Len(s) = 13
  /\ s[1] = "+" /\ s[2] = "9" /\ s[3] = "1"
  /\ s[4] \in {"6", "7", "8", "9"}
  /\ \A i \in 5..13 : IsDigit(s[i])

FieldNames == {"fullName", "email", "phone", "college", "branch", "year",
               "gender", "accommodation", "foodPreference", "ieeeStatus",
               "ieeeMembershipId", "ticketType", "agreeToTerms"}

\* the file descriptor of a request without an attached file
NoFile == [mimetype |-> "none", size |-> 0]

\* `!x || x.trim().length < n`: "err" pushes the message, "throw" is the
\* TypeError of calling trim on a value that is not a string
TrimShorter(x, n) ==
  IF ~Truthy(x) THEN "err"
  ELSE IF ~IsStr(x) THEN "throw"
  ELSE IF Len(Trim(x.v)) < n THEN "err" ELSE "ok"

RuleNames == <<"fullName", "email", "phone", "college", "branch", "year",
               "gender", "accommodation", "foodPreference", "ieeeStatus",
               "ieeeMembershipId", "ticketType", "agreeToTerms", "file">>

RuleMessage(r) ==
  CASE r = "fullName"         -> "Full name must be at least 2 characters long"
    [] r = "email"            -> "Valid email address is required"
    [] r = "phone"            -> "Phone number must be in format: +91XXXXXXXXXX"
    [] r = "college"          -> "College name is required"
    [] r = "branch"           -> "Branch is required"
    [] r = "year"             -> "Year must be 1, 2, 3, or 4"
    [] r = "gender"           -> "Gender must be \"male\", \"female\", or \"other\""
    [] r = "accommodation"    -> "Accommodation must be \"yes\" or \"no\""
    [] r = "foodPreference"   -> "Food preference must be \"veg\" or \"non-veg\""
    [] r = "ieeeStatus"       -> "IEEE status must be \"member\" or \"non-member\""
    [] r = "ieeeMembershipId" -> "IEEE Membership ID is required for IEEE members"
    [] r = "ticketType"       -> "Ticket type must be \"ieee\" or \"non-ieee\""
    [] r = "agreeToTerms"     -> "You must agree to the terms and conditions"
    [] OTHER                  -> "Transaction screenshot is required"

EnumRule(x, list) == IF ~Truthy(x) \/ ~Includes(list, x) THEN "err" ELSE "ok"

\* the outcome of one `if` of the validator on body b and file f
RuleOutcome(r, b, f) ==
  CASE r = "fullName" -> TrimShorter(b.fullName, 2)
    [] r = "email"    ->
         IF ~Truthy(b.email) \/ ~emailRegex(JsString(b.email)) THEN "err" ELSE "ok"
    [] r = "phone"    ->
         IF ~Truthy(b.phone) \/ ~phoneRegex(JsString(b.phone)) THEN "err" ELSE "ok"
    [] r = "college"  -> TrimShorter(b.college, 2)
    [] r = "branch"   -> TrimShorter(b.branch, 2)
    [] r = "year"     -> EnumRule(b.year, {<<"1">>, <<"2">>, <<"3">>, <<"4">>})
    [] r = "gender"   ->
         IF ~Truthy(b.gender) THEN "err"
         ELSE IF ~IsStr(b.gender) THEN "throw"
         ELSE IF ToLowerCase(b.gender.v) \notin
                   {<<"m", "a", "l", "e">>, <<"f", "e", "m", "a", "l", "e">>,
                    <<"o", "t", "h", "e", "r">>}
              THEN "err" ELSE "ok"
    [] r = "accommodation"  ->
         EnumRule(b.accommodation, {<<"y", "e", "s">>, <<"n", "o">>})
    [] r = "foodPreference" ->
         EnumRule(b.foodPreference,
                  {<<"v", "e", "g">>, <<"n", "o", "n", "-", "v", "e", "g">>})
    [] r = "ieeeStatus"     ->
         EnumRule(b.ieeeStatus,
                  {<<"m", "e", "m", "b", "e", "r">>,
                   <<"n", "o", "n", "-", "m", "e", "m", "b", "e", "r">>})
    [] r = "ieeeMembershipId" ->
         IF b.ieeeStatus = Str(<<"m", "e", "m", "b", "e", "r">>)
         THEN TrimShorter(b.ieeeMembershipId, 5)
         ELSE "ok"
    [] r = "ticketType"     ->
         EnumRule(b.ticketType,
                  {<<"i", "e", "e", "e">>, <<"n", "o", "n", "-", "i", "e", "e", "e">>})
    [] r = "agreeToTerms"   ->
         IF b.agreeToTerms # Bool(TRUE) /\ b.agreeToTerms # Str(<<"t", "r", "u", "e">>)
         THEN "err" ELSE "ok"
    [] OTHER                -> IF f = NoFile THEN "err" ELSE "ok"

\* the errors array after all the ifs ran
ErrorList(b, f) ==
  LET failed == SelectSeq(RuleNames, LAMBDA r : RuleOutcome(r, b, f) = "err")
  IN [i \in 1..Len(failed) |-> RuleMessage(failed[i])]

\* validateRegistration(req, res, next): "throw" when an `if` raised a
\* TypeError, "reject" for the 400 response, "next" when it calls next()
validateRegistration(b, f) ==
  IF \E i \in 1..Len(RuleNames) : RuleOutcome(RuleNames[i], b, f) = "throw"
  THEN [kind |-> "throw", errors |-> <<>>]
  ELSE IF Len(ErrorList(b, f)) > 0
       THEN [kind |-> "reject", errors |-> ErrorList(b, f)]
       ELSE [kind |-> "next", errors |-> <<>>]

-----------------------------------------------------------------------------
(* upload = multer({ limits, fileFilter }) and the error handler *)

\* limits.fileSize
\* the callers' addresses (req.ip), the key of the limiter
Addrs == {"10.0.0.1", "10.0.0.2"}

windowMs == 15 * 60 * 1000

max == 5

\* a key of the limiter's memory store that has no hits yet
NoHits == [totalHits |-> 0, resetTime |-> 0]

\* the limiter that admits a request whose count equals max + 1
registrationLimiterLate(h, a, t) ==
  LET c == IF h[a].resetTime <= t
           THEN [totalHits |-> 0, resetTime |-> t + windowMs] ELSE h[a]
      n == [c EXCEPT !.totalHits = @ + 1]
  IN [limited |-> n.totalHits > max + 1, store |-> [h EXCEPT ![a] = n]]

\* rateLimit({ windowMs, max }) at time t for a request of address a: the
\* memory store of express-rate-limit keeps for each key a hit count and the
\* time its window ends; a key whose window has ended starts a new one
registrationLimiter(h, a, t) ==
  LET c == IF h[a].resetTime <= t
           THEN [totalHits |-> 0, resetTime |-> t + windowMs] ELSE h[a]
      n == [c EXCEPT !.totalHits = @ + 1]
  IN [limited |-> n.totalHits > max, store |-> [h EXCEPT ![a] = n]]

fileSize == 5 * 1024 * 1024

allowedTypes == {"image/jpeg", "image/png", "image/jpg", "image/webp"}

\* fileFilter(req, file, cb): TRUE for cb(null, true), FALSE for cb(new Error(..))
fileFilter(f) == f.mimetype \in allowedTypes

\* upload.single('transactionScreenshot'): "next" with req.file set (or left
\* undefined when no file part came), or the error handed to next(err)
upload(f) ==
  IF f = NoFile THEN [kind |-> "next", message |-> ""]
  ELSE IF ~fileFilter(f)
       THEN [kind |-> "Error",
             message |-> "Invalid file type. Only JPEG, PNG, and WebP images are allowed."]
  ELSE IF f.size > fileSize
       THEN [kind |-> "MulterError", message |-> "File too large"]
  ELSE [kind |-> "next", message |-> ""]

NoData == [none |-> TRUE]

NoResp == [status |-> 0, message |-> "", error |-> "", errors |-> <<>>, data |-> NoData]

Response(st, msg, err, errs, d) ==
  [status |-> st, message |-> msg, error |-> err, errors |-> errs, data |-> d]

\* app.use((err, req, res, next) => ...)
errorHandler(err) ==
  IF err.kind = "MulterError"
  THEN Response(400, "File upload error", err.message, <<>>, NoData)
  ELSE Response(500, "Internal server error", err.message, <<>>, NoData)

-----------------------------------------------------------------------------
(* ticket ids *)

\* the tail of a version-4 UUID after its first segment
UuidTail == <<"-", "5", "7", "1", "7", "-", "4", "5", "6", "2", "-",
              "b", "3", "f", "c", "-",
              "2", "c", "9", "6", "3", "f", "6", "6", "a", "f", "a">>

\* the values uuidv4() is drawn from: the first two share their first
\* segment, so that short ids can collide between different ticket ids
UuidPool ==
  { <<"3", "f", "a", "8", "5", "f", "6", "4">> \o UuidTail \o <<"6">>,
    <<"3", "f", "a", "8", "5", "f", "6", "4">> \o UuidTail \o <<"7">>,
    <<"9", "c", "0", "1", "d", "2", "e", "b">> \o UuidTail \o <<"6">> }

\* uuid.split('-')[0]
FirstSegment(u) ==
  IF \E i \in 1..Len(u) : u[i] = "-"
  THEN SubSeq(u, 1, (CHOOSE i \in 1..Len(u) :
                       u[i] = "-" /\ \A j \in 1..(i - 1) : u[j] # "-") - 1)
  ELSE u

\* generateShortTicketId without the split: the prefix and the whole uuid
generateShortTicketIdWhole(uuid) == <<"T", "H", "M", "-">> \o uuid

\* generateShortTicketId: `THM-${uuid.split('-')[0]}`
generateShortTicketId(uuid) == <<"T", "H", "M", "-">> \o FirstSegment(uuid)

-----------------------------------------------------------------------------
(* uploadToImgBB *)

ImageUrl == <<"h", "t", "t", "p", "s", ":", "/", "/", "i", ".", "i", "b", "b",
              ".", "c", "o", "/", "x", ".", "p", "n", "g">>

DeleteUrl == <<"h", "t", "t", "p", "s", ":", "/", "/", "i", "b", "b", ".", "c",
               "o", "/", "d", "e", "l">>

\* what axios.post can produce: a rejection (network failure or a status
\* outside 2xx), or a response whose body response.data is one of
\*   "full"    { success: true, data: { url, delete_url } }
\*   "nourl"   { success: true, data: {} }
\*   "nodata"  { success: true }
\*   "failure" { success: false }
\*   "empty"   an empty body
AllProviderOutcomes == {"reject", "full", "nourl", "nodata", "failure", "empty"}

\* uploadToImgBB(imageBuffer, imageName) on provider outcome o
uploadToImgBB(o) ==
  CASE o = "full"   -> [threw |-> FALSE, message |-> "",
                        url |-> Str(ImageUrl), deleteUrl |-> Str(DeleteUrl)]
    [] o = "nourl"  -> [threw |-> FALSE, message |-> "",
                        url |-> Undef, deleteUrl |-> Undef]
    [] o = "nodata" -> [threw |-> TRUE,
                        message |-> "Failed to upload image to ImgBB: Cannot read properties of undefined (reading 'url')",
                        url |-> Undef, deleteUrl |-> Undef]
    [] o = "reject" -> [threw |-> TRUE,
                        message |-> "Failed to upload image to ImgBB: Network Error",
                        url |-> Undef, deleteUrl |-> Undef]
    [] OTHER        -> [threw |-> TRUE,
                        message |-> "Failed to upload image to ImgBB: ImgBB upload failed",
                        url |-> Undef, deleteUrl |-> Undef]

-----------------------------------------------------------------------------
(* the registration store: collection 'tickets' with its three unique indexes *)

\* `if (x)` on the result of findOne: a document, or null
Found(x) == "t" \notin DOMAIN x

\* findOneByEmail querying a field no document has: it never finds one
findOneByEmailNone(st, e) == Null

\* registrationsCollection.findOne({ email: e }): first match in natural order
findOneByEmail(st, e) ==
  IF \E k \in 1..Len(st) : st[k].email = e
  THEN st[CHOOSE k \in 1..Len(st) :
            st[k].email = e /\ \A j \in 1..(k - 1) : st[j].email # e]
  ELSE Null

\* findOneByEitherId without the second branch of $or
findOneByTicketId(st, id) ==
  IF \E k \in 1..Len(st) : st[k].ticketId = id
  THEN st[CHOOSE k \in 1..Len(st) : st[k].ticketId = id]
  ELSE Null

\* findOne({ $or: [{ ticketId: id }, { shortTicketId: id }] })
findOneByEitherId(st, id) ==
  LET Match(k) == st[k].ticketId = id \/ st[k].shortTicketId = id
  IN IF \E k \in 1..Len(st) : Match(k)
     THEN st[CHOOSE k \in 1..Len(st) : Match(k) /\ \A j \in 1..(k - 1) : ~Match(j)]
     ELSE Null

\* connectDB without the unique index on shortTicketId
DuplicateKeyNoShort(st, doc) ==
  \E k \in 1..Len(st) :
    \/ st[k].email = doc.email
    \/ st[k].ticketId = doc.ticketId

\* the unique indexes created by connectDB: would inserting doc violate one?
DuplicateKey(st, doc) ==
  \E k \in 1..Len(st) :
    \/ st[k].email = doc.email
    \/ st[k].ticketId = doc.ticketId
    \/ st[k].shortTicketId = doc.shortTicketId

-----------------------------------------------------------------------------
(* the handler of POST /api/register *)

Member == Str(<<"m", "e", "m", "b", "e", "r">>)

\* the statements building registrationDoc call trim/toLowerCase on body
\* fields: a field that is not a string raises a TypeError there
DocThrows(b) ==
  \E fld \in {"fullName", "email", "phone", "college", "branch", "gender"} :
    ~IsStr(b[fld])

\* registrationDoc storing the membership id whenever one was submitted
registrationDocKeepId(b, fullTicketId, shortTicketId, uploadResult) ==
  [ ticketId        |-> Str(fullTicketId),
    shortTicketId   |-> Str(shortTicketId),
    fullName        |-> Str(Trim(b.fullName.v)),
    email           |-> Str(Trim(ToLowerCase(b.email.v))),
    phone           |-> Str(Trim(b.phone.v)),
    college         |-> Str(Trim(b.college.v)),
    branch          |-> Str(Trim(b.branch.v)),
    year            |-> b.year,
    gender          |-> Str(Trim(ToLowerCase(b.gender.v))),
    accommodation   |-> b.accommodation,
    foodPreference  |-> b.foodPreference,
    ieeeStatus      |-> b.ieeeStatus,
    ieeeMembershipId |-> IF IsStr(b.ieeeMembershipId) /\ Truthy(b.ieeeMembershipId)
                         THEN Str(Trim(b.ieeeMembershipId.v)) ELSE Null,
    ticketType      |-> b.ticketType,
    transactionScreenshotUrl       |-> uploadResult.url,
    transactionScreenshotDeleteUrl |-> uploadResult.deleteUrl,
    agreeToTerms    |-> (b.agreeToTerms = Bool(TRUE)
                          \/ b.agreeToTerms = Str(<<"t", "r", "u", "e">>)),
    status          |-> "pending" ]

\* registrationDoc storing the email as submitted, not lower-cased
registrationDocKeepCase(b, fullTicketId, shortTicketId, uploadResult) ==
  [ ticketId        |-> Str(fullTicketId),
    shortTicketId   |-> Str(shortTicketId),
    fullName        |-> Str(Trim(b.fullName.v)),
    email           |-> Str(Trim(b.email.v)),
    phone           |-> Str(Trim(b.phone.v)),
    college         |-> Str(Trim(b.college.v)),
    branch          |-> Str(Trim(b.branch.v)),
    year            |-> b.year,
    gender          |-> Str(Trim(ToLowerCase(b.gender.v))),
    accommodation   |-> b.accommodation,
    foodPreference  |-> b.foodPreference,
    ieeeStatus      |-> b.ieeeStatus,
    ieeeMembershipId |-> IF b.ieeeStatus = Member
                         THEN Str(Trim(b.ieeeMembershipId.v)) ELSE Null,
    ticketType      |-> b.ticketType,
    transactionScreenshotUrl       |-> uploadResult.url,
    transactionScreenshotDeleteUrl |-> uploadResult.deleteUrl,
    agreeToTerms    |-> (b.agreeToTerms = Bool(TRUE)
                          \/ b.agreeToTerms = Str(<<"t", "r", "u", "e">>)),
    status          |-> "pending" ]

\* registrationDoc (createdAt and updatedAt are left out: time is not modelled)
registrationDoc(b, fullTicketId, shortTicketId, uploadResult) ==
  [ ticketId        |-> Str(fullTicketId),
    shortTicketId   |-> Str(shortTicketId),
    fullName        |-> Str(Trim(b.fullName.v)),
    email           |-> Str(Trim(ToLowerCase(b.email.v))),
    phone           |-> Str(Trim(b.phone.v)),
    college         |-> Str(Trim(b.college.v)),
    branch          |-> Str(Trim(b.branch.v)),
    year            |-> b.year,
    gender          |-> Str(Trim(ToLowerCase(b.gender.v))),
    accommodation   |-> b.accommodation,
    foodPreference  |-> b.foodPreference,
    ieeeStatus      |-> b.ieeeStatus,
    ieeeMembershipId |-> IF b.ieeeStatus = Member
                         THEN Str(Trim(b.ieeeMembershipId.v)) ELSE Null,
    ticketType      |-> b.ticketType,
    transactionScreenshotUrl       |-> uploadResult.url,
    transactionScreenshotDeleteUrl |-> uploadResult.deleteUrl,
    agreeToTerms    |-> (b.agreeToTerms = Bool(TRUE)
                          \/ b.agreeToTerms = Str(<<"t", "r", "u", "e">>)),
    status          |-> "pending" ]

\* the catch block without its duplicate-key branch
catchResponseGeneric(code, message) ==
  Response(500, "Registration failed", message, <<>>, NoData)

\* the catch block of the handler: error.code === 11000 or anything else
catchResponse(code, message) ==
  IF code = 11000
  THEN Response(400, "Registration already exists",
                "This email or ticket ID already exists in the system", <<>>, NoData)
  ELSE Response(500, "Registration failed", message, <<>>, NoData)

-----------------------------------------------------------------------------
(* the requests the clients send *)

Email1 == <<"a", "@", "x", ".", "c", "o">>

Email2 == <<"A", "@", "x", ".", "c", "o">>

Email3 == <<"b", "@", "x", ".", "c", "o">>

GoodPhone == <<"+", "9", "1", "9", "8", "7", "6", "5", "4", "3", "2", "1", "0">>

BadPhone == <<"+", "9", "1", "5", "8", "7", "6", "5", "4", "3", "2", "1", "0">>

NonMember == Str(<<"n", "o", "n", "-", "m", "e", "m", "b", "e", "r">>)

\* a form that satisfies every rule, for a non-member
Form(email) ==
  [ fullName         |-> Str(<<" ", "J", "o", " ">>),
    email            |-> Str(email),
    phone            |-> Str(GoodPhone),
    college          |-> Str(<<"A", "B", "C">>),
    branch           |-> Str(<<"C", "S">>),
    year             |-> Str(<<"2">>),
    gender           |-> Str(<<"F", "e", "m", "a", "l", "e">>),
    accommodation    |-> Str(<<"n", "o">>),
    foodPreference   |-> Str(<<"v", "e", "g">>),
    ieeeStatus       |-> NonMember,
    ieeeMembershipId |-> Undef,
    ticketType       |-> Str(<<"n", "o", "n", "-", "i", "e", "e", "e">>),
    agreeToTerms     |-> Str(<<"t", "r", "u", "e">>) ]

\* the same form for an IEEE member
MemberForm(email) ==
  [Form(email) EXCEPT !.ieeeStatus = Member,
                      !.ieeeMembershipId = Str(<<" ", "9", "8", "7", "6", "5", " ">>),
                      !.ticketType = Str(<<"i", "e", "e", "e">>)]

GoodFile == [mimetype |-> "image/jpeg", size |-> 2 * 1024 * 1024]

PdfFile == [mimetype |-> "application/pdf", size |-> 2 * 1024 * 1024]

BigFile == [mimetype |-> "image/png", size |-> fileSize + 1]

LimitFile == [mimetype |-> "image/webp", size |-> fileSize]

Submission(b, f) == [body |-> b, file |-> f]

\* the forms that satisfy every rule: two of them have emails that differ
\* only in case
GoodForms ==
  { Form(Email1), MemberForm(Email2),
    [Form(Email3) EXCEPT !.ieeeMembershipId = Str(<<"9", "9">>)] }

\* the submissions of the pipeline specification: the good forms, a form with
\* a bad phone number, and a request with a file of a type that is not allowed
Submissions ==
  {Submission(b, GoodFile) : b \in GoodForms} \cup
  { Submission([Form(Email1) EXCEPT !.phone = Str(BadPhone)], GoodFile),
    Submission(Form(Email1), PdfFile) }

\* the outcomes of axios.post in the pipeline specification
ProviderOutcomes == {"full", "reject"}

\* the values a client can put in one field: absent, strings around the
\* limits of the rules, and values that are not strings
FieldValues ==
  { Undef, Str(<<>>), Str(<<" ", "x", " ">>), Str(<<"x", "y", "z", "z", "y">>),
    Str(<<"M", "A", "L", "E">>), Str(<<"5">>), Str(<<"t", "r", "u", "e">>),
    Str(BadPhone), Str(<<"a", " ", "@", "x", ".", "c", "o">>),
    Str(<<"a", "@", "x", "c", "o">>), Str(<<"a", "@", "b", "@", "x", ".", "c">>),
    Num(0), Num(5), Bool(TRUE), Bool(FALSE), Obj,
    Arr(<<Str(Email1)>>), Arr(<<Str(GoodPhone)>>), Arr(<<Str(Email1), Str(Email1)>>) }

\* the forms of the wide specification: the good forms, and every form that
\* differs from a good one in one field
WideForms ==
  GoodForms \cup
  { [b EXCEPT ![fld] = x] : b \in {Form(Email1), MemberForm(Email2)},
                             fld \in FieldNames, x \in FieldValues }

WideSubmissions ==
  {Submission(b, GoodFile) : b \in WideForms} \cup
  {Submission(b, f) : b \in GoodForms, f \in {NoFile, PdfFile, BigFile, LimitFile}} \cup
  {Submission([Form(Email1) EXCEPT !.year = Str(<<"5">>), !.fullName = Undef], NoFile)}

UnknownId == <<"T", "H", "M", "-", "0", "0", "0", "0", "0", "0", "0", "0">>

\* the ids a ticket can get, short or full
TicketIds == UuidPool \cup {generateShortTicketId(u) : u \in UuidPool}

\* the :ticketId parameters of the lookups of the wide specification
WideLookupIds == TicketIds \cup {UnknownId}

\* and of the pipeline specification: a full id, a short id, an unknown id
LookupIds ==
  { <<"9", "c", "0", "1", "d", "2", "e", "b">> \o UuidTail \o <<"6">>,
    generateShortTicketId(<<"3", "f", "a", "8", "5", "f", "6", "4">> \o UuidTail \o <<"6">>),
    UnknownId }

-----------------------------------------------------------------------------
(* state *)

\* number of requests of one run of the pipeline specification
NReq == 2

\* the clock advances in steps of five minutes, at most MaxTicks times
TickMs == 5 * 60 * 1000

MaxTicks == 3

Times == {k * TickMs : k \in 0..MaxTicks}

\* number of POST /api/register requests of the admission specification
NPost == 7

VARIABLES
  store,             \* the documents of collection 'tickets', in insertion order
  req,               \* the requests: position in the handler and its locals
  sheet,             \* the rows of the spreadsheet
  sheetsConfigured,  \* sheets && process.env.GOOGLE_SHEET_ID
  now,               \* Date.now()
  hits,              \* the memory store of registrationLimiter, by address
  admitted,          \* history: by address and time, the requests let through
  limited            \* history: by address, the requests answered 429

vars == <<store, req, sheet, sheetsConfigured, now, hits, admitted, limited>>

limiterVars == <<now, hits, admitted, limited>>

LimiterInit ==
  /\ now = 0
  /\ hits = [a \in Addrs |-> NoHits]
  /\ admitted = [a \in Addrs |-> [t \in Times |-> 0]]
  /\ limited = [a \in Addrs |-> 0]

\* the calls a request made to the external services and how each settled:
\* "none" when the call was not made, "pending" while it has not settled
NoCalls == [findOne |-> "none", upload |-> "none", insertOne |-> "none",
            append |-> "none"]

NoUpload == [threw |-> FALSE, message |-> "", url |-> Undef, deleteUrl |-> Undef]

IdleReq ==
  [ pc           |-> "idle",      \* idle, findOne, upload, insertOne, hung, done
    route        |-> "none",      \* "register" or "lookup"
    body         |-> Form(<<>>),
    file         |-> NoFile,
    id           |-> <<>>,        \* req.params.ticketId
    fullTicketId |-> <<>>,
    uploadResult |-> NoUpload,
    resp         |-> NoResp,
    mirror       |-> "none",      \* the setImmediate callback: none, scheduled,
                                  \* running (at its await), done
    calls        |-> NoCalls,
    sequel       |-> FALSE,       \* arrived after a 201 for the same email
    clash        |-> FALSE ]      \* its insert met a ticket id of another email

\* the pipeline specification runs without GOOGLE_SHEET_ID: the sheet sink is
\* optional, and the wide specification covers it
Init ==
  /\ store = <<>>
  /\ req = [i \in 1..NReq |-> IdleReq]
  /\ sheet = <<>>
  /\ sheetsConfigured = FALSE
  /\ LimiterInit

WideInit ==
  /\ store = <<>>
  /\ req = [i \in {1} |-> IdleReq]
  /\ sheet = <<>>
  /\ sheetsConfigured \in BOOLEAN
  /\ LimiterInit

\* the handler's locals go out of scope when it returns or is abandoned
Drop(r) == [r EXCEPT !.fullTicketId = <<>>, !.uploadResult = NoUpload]

Finish(r, response) == [Drop(r) EXCEPT !.pc = "done", !.resp = response]

\* requests are numbered in the order they arrive
MayArrive(i) == req[i].pc = "idle" /\ \A j \in 1..(i - 1) : req[j].pc # "idle"

\* email.toLowerCase().trim() of a body whose email is a string
NormalEmail(b) == Str(Trim(ToLowerCase(b.email.v)))

\* some request was already answered 201 for the email of body b
Answered(b) ==
  /\ IsStr(b.email)
  /\ \E k \in DOMAIN req :
       /\ req[k].pc = "done" /\ req[k].route = "register"
       /\ req[k].resp.status = 201
       /\ req[k].resp.data.email = NormalEmail(b)

\* POST /api/register of address a from its arrival to the first await of the
\* handler: registrationLimiter, upload.single, validateRegistration, then
\* findOne is issued
Register(i, a, sub) ==
  /\ MayArrive(i)
  /\ LET lim == registrationLimiter(hits, a, now)
         r == [req[i] EXCEPT !.route = "register", !.body = sub.body,
                             !.file = sub.file, !.sequel = Answered(sub.body)]
         m == upload(sub.file)
         v == validateRegistration(sub.body, sub.file)
     IN /\ hits' = lim.store
        /\ admitted' = IF lim.limited THEN admitted
                       ELSE [admitted EXCEPT ![a][now] = @ + 1]
        /\ limited' = IF lim.limited THEN [limited EXCEPT ![a] = @ + 1]
                      ELSE limited
        /\ req' = [req EXCEPT ![i] =
             IF lim.limited
             THEN Finish(r, Response(429,
                    "Too many registration attempts, please try again later.",
                    "", <<>>, NoData))
             ELSE IF m.kind # "next" THEN Finish(r, errorHandler(m))
             ELSE IF v.kind = "throw"
                  THEN Finish(r, errorHandler([kind |-> "TypeError",
                                               message |-> "trim is not a function"]))
             ELSE IF v.kind = "reject"
                  THEN Finish(r, Response(400, "Validation failed", "", v.errors, NoData))
             ELSE IF ~IsStr(sub.body.email)
                  THEN Finish(r, catchResponse(0, "email.toLowerCase is not a function"))
             ELSE [r EXCEPT !.pc = "findOne", !.calls.findOne = "pending"]]
  /\ UNCHANGED <<store, sheet, sheetsConfigured, now>>

\* the handler without `if (existingRegistration)`: it goes on to the ticket
\* ids and the upload whatever findOne returned
FindOneReturnGoesOn(i, ok) ==
  /\ req[i].pc = "findOne"
  /\ LET r == req[i]
         existingRegistration == findOneByEmail(store, Str(ToLowerCase(r.body.email.v)))
     IN IF ~ok
        THEN req' = [req EXCEPT ![i] =
               Finish([r EXCEPT !.calls.findOne = "rejected"],
                      catchResponse(0, "store unavailable"))]
        ELSE \E u \in UuidPool :
               req' = [req EXCEPT ![i] =
                 [r EXCEPT !.pc = "upload", !.fullTicketId = u,
                           !.calls.findOne = IF Found(existingRegistration)
                                             THEN "doc" ELSE "null",
                           !.calls.upload = "pending"]]
  /\ UNCHANGED <<store, sheet, sheetsConfigured>>
  /\ UNCHANGED limiterVars

\* findOne({ email }) returns (or rejects, when ok is FALSE); the handler runs
\* on to the await of uploadToImgBB
FindOneReturn(i, ok) ==
  /\ req[i].pc = "findOne"
  /\ LET r == req[i]
         existingRegistration == findOneByEmail(store, Str(ToLowerCase(r.body.email.v)))
     IN IF ~ok
        THEN req' = [req EXCEPT ![i] =
               Finish([r EXCEPT !.calls.findOne = "rejected"],
                      catchResponse(0, "store unavailable"))]
        ELSE IF Found(existingRegistration)
        THEN req' = [req EXCEPT ![i] =
               Finish([r EXCEPT !.calls.findOne = "doc"],
                      Response(400, "Email already registered",
                          "This email address has already been used for registration",
                          <<>>, NoData))]
        ELSE \E u \in UuidPool :
               req' = [req EXCEPT ![i] =
                 [r EXCEPT !.pc = "upload", !.fullTicketId = u,
                           !.calls.findOne = "null", !.calls.upload = "pending"]]
  /\ UNCHANGED <<store, sheet, sheetsConfigured>>
  /\ UNCHANGED limiterVars

\* axios.post settles with provider outcome o; on success the handler builds
\* registrationDoc and issues insertOne
UploadReturn(i, o) ==
  /\ req[i].pc = "upload"
  /\ LET r == [req[i] EXCEPT !.calls.upload = o]
         uploadResult == uploadToImgBB(o)
     IN req' = [req EXCEPT ![i] =
          IF uploadResult.threw THEN Finish(r, catchResponse(0, uploadResult.message))
          ELSE IF DocThrows(r.body)
               THEN Finish(r, catchResponse(0, "trim is not a function"))
          ELSE [r EXCEPT !.pc = "insertOne", !.uploadResult = uploadResult,
                         !.calls.insertOne = "pending"]]
  /\ UNCHANGED <<store, sheet, sheetsConfigured>>
  /\ UNCHANGED limiterVars

\* the document the handler of request r hands to insertOne
DocOf(r) ==
  registrationDoc(r.body, r.fullTicketId, generateShortTicketId(r.fullTicketId),
                  r.uploadResult)

\* the data of the 201 response
SuccessData(r) ==
  [ ticketId      |-> Str(r.fullTicketId),
    shortTicketId |-> Str(generateShortTicketId(r.fullTicketId)),
    email         |-> NormalEmail(r.body) ]

\* doc has the ticket id or the short id of a document with another email
ForeignClash(st, doc) ==
  \E k \in 1..Len(st) :
    /\ st[k].email # doc.email
    /\ st[k].ticketId = doc.ticketId \/ st[k].shortTicketId = doc.shortTicketId

\* the handler with `await appendToGoogleSheets(...)` resolved by the append:
\* after the insert it waits for the mirror and has not answered
InsertOneReturnAwaits(i, ok) ==
  /\ req[i].pc = "insertOne"
  /\ LET r == req[i]
     IN IF ~ok
        THEN /\ req' = [req EXCEPT ![i] =
                  Finish([r EXCEPT !.calls.insertOne = "rejected"],
                         catchResponse(0, "store unavailable"))]
             /\ UNCHANGED store
        ELSE IF DuplicateKey(store, DocOf(r))
        THEN /\ req' = [req EXCEPT ![i] =
                  Finish([r EXCEPT !.calls.insertOne = "duplicate",
                                   !.clash = ForeignClash(store, DocOf(r))],
                         catchResponse(11000, "E11000 duplicate key error"))]
             /\ UNCHANGED store
        ELSE /\ store' = Append(store, DocOf(r))
             /\ req' = [req EXCEPT ![i] =
                  [r EXCEPT !.pc = "append", !.mirror = "scheduled",
                            !.calls.insertOne = "inserted"]]
  /\ UNCHANGED <<sheet, sheetsConfigured>>
  /\ UNCHANGED limiterVars

\* insertOne(registrationDoc) returns (or rejects for a reason other than a
\* unique index, when ok is FALSE); the handler schedules the sheet append
\* and answers
InsertOneReturn(i, ok) ==
  /\ req[i].pc = "insertOne"
  /\ LET r == req[i]
     IN IF ~ok
        THEN /\ req' = [req EXCEPT ![i] =
                  Finish([r EXCEPT !.calls.insertOne = "rejected"],
                         catchResponse(0, "store unavailable"))]
             /\ UNCHANGED store
        ELSE IF DuplicateKey(store, DocOf(r))
        THEN /\ req' = [req EXCEPT ![i] =
                  Finish([r EXCEPT !.calls.insertOne = "duplicate",
                                   !.clash = ForeignClash(store, DocOf(r))],
                         catchResponse(11000, "E11000 duplicate key error"))]
             /\ UNCHANGED store
        ELSE /\ store' = Append(store, DocOf(r))
             /\ req' = [req EXCEPT ![i] =
                  [r EXCEPT !.pc = "done", !.mirror = "scheduled",
                            !.calls.insertOne = "inserted",
                            !.resp = Response(201, "Registration successful", "",
                                              <<>>, SuccessData(r))]]
  /\ UNCHANGED <<sheet, sheetsConfigured>>
  /\ UNCHANGED limiterVars

\* a call that never settles: neither axios.post nor the store calls are given
\* a timeout, so the handler stays at its await
Hang(i) ==
  /\ req[i].pc \in {"findOne", "upload", "insertOne"}
  /\ req' = [req EXCEPT ![i] = [Drop(req[i]) EXCEPT !.pc = "hung"]]
  /\ UNCHANGED <<store, sheet, sheetsConfigured>>
  /\ UNCHANGED limiterVars

\* the store applies the insert but its acknowledgement never arrives
InsertOneLost(i) ==
  /\ req[i].pc = "insertOne"
  /\ ~DuplicateKey(store, DocOf(req[i]))
  /\ store' = Append(store, DocOf(req[i]))
  /\ req' = [req EXCEPT ![i] = [Drop(req[i]) EXCEPT !.pc = "hung"]]
  /\ UNCHANGED <<sheet, sheetsConfigured>>
  /\ UNCHANGED limiterVars

\* the row appendToGoogleSheets builds (createdAt left out)
SheetRow(d) ==
  << d.ticketId, d.shortTicketId, d.fullName, d.email, d.phone, d.college,
     d.branch, d.year, d.gender, d.accommodation, d.foodPreference, d.ieeeStatus,
     IF Truthy(d.ieeeMembershipId) THEN d.ieeeMembershipId ELSE Str(<<>>),
     d.ticketType, d.transactionScreenshotUrl, Str(d.status) >>

\* the callback without its try/catch: a failed append reaches the response
MirrorRunPropagates(i, o) ==
  /\ req[i].mirror = "scheduled"
  /\ IF ~sheetsConfigured
     THEN /\ o = "appended"
          /\ req' = [req EXCEPT ![i] = [Drop(req[i]) EXCEPT !.mirror = "done"]]
          /\ UNCHANGED sheet
     ELSE /\ req' = [req EXCEPT ![i] =
                    [Drop(req[i]) EXCEPT
                       !.mirror = IF o = "pending" THEN "running" ELSE "done",
                       !.calls.append = o,
                       !.resp = IF o = "rejected"
                                THEN catchResponse(0, "append failed")
                                ELSE req[i].resp]]
          /\ sheet' = IF o = "appended" THEN Append(sheet, SheetRow(DocOf(req[i])))
                      ELSE sheet
  /\ UNCHANGED <<store, sheetsConfigured>>
  /\ UNCHANGED limiterVars

\* the setImmediate callback of appendToGoogleSheets; o is the outcome of
\* sheets.spreadsheets.values.append: "appended", "rejected", or "pending"
\* when it never settles; without configuration no call is made
MirrorRun(i, o) ==
  /\ req[i].mirror = "scheduled"
  /\ IF ~sheetsConfigured
     THEN /\ o = "appended"
          /\ req' = [req EXCEPT ![i] = [Drop(req[i]) EXCEPT !.mirror = "done"]]
          /\ UNCHANGED sheet
     ELSE /\ req' = [req EXCEPT ![i] =
                    [Drop(req[i]) EXCEPT
                       !.mirror = IF o = "pending" THEN "running" ELSE "done",
                       !.calls.append = o]]
          /\ sheet' = IF o = "appended" THEN Append(sheet, SheetRow(DocOf(req[i])))
                      ELSE sheet
  /\ UNCHANGED <<store, sheetsConfigured>>
  /\ UNCHANGED limiterVars

\* safeData without the destructuring: the whole document
safeDataWhole(d) == d

\* const { transactionScreenshotDeleteUrl, ...safeData } = registration
safeData(d) == [k \in (DOMAIN d) \ {"transactionScreenshotDeleteUrl"} |-> d[k]]

\* the response of GET /api/registration/:ticketId when findOne returns
\* (ok) or rejects
lookupResponse(st, id, ok) ==
  IF ~ok THEN Response(500, "Failed to fetch registration", "store unavailable",
                       <<>>, NoData)
  ELSE LET registration == findOneByEitherId(st, Str(id))
       IN IF ~Found(registration)
          THEN Response(404, "Registration not found", "", <<>>, NoData)
          ELSE Response(200, "", "", <<>>, safeData(registration))

\* GET /api/registration/:ticketId
GetRegistration(i, id, ok) ==
  /\ MayArrive(i)
  /\ req' = [req EXCEPT ![i] =
       [Finish(req[i], lookupResponse(store, id, ok))
          EXCEPT !.route = "lookup", !.id = id,
                 !.calls.findOne = IF ~ok THEN "rejected"
                                   ELSE IF Found(findOneByEitherId(store, Str(id)))
                                        THEN "doc" ELSE "null"]]
  /\ UNCHANGED <<store, sheet, sheetsConfigured>>
  /\ UNCHANGED limiterVars

\* GET /api/health
Health(i) ==
  /\ MayArrive(i)
  /\ req' = [req EXCEPT ![i] =
       [Finish(req[i], Response(200, "Server is running", "", <<>>, NoData))
          EXCEPT !.route = "health"]]
  /\ UNCHANGED <<store, sheet, sheetsConfigured>>
  /\ UNCHANGED limiterVars

\* the response was sent and nothing of the request is pending: its objects
\* are released, and the next request can take their place
Close(i) ==
  /\ req[i].pc = "done"
  /\ req[i].mirror \notin {"scheduled", "running"}
  /\ req' = [req EXCEPT ![i] = IdleReq]
  /\ UNCHANGED <<store, sheet, sheetsConfigured>>
  /\ UNCHANGED limiterVars

\* five minutes pass
Tick ==
  /\ now + TickMs \in Times
  /\ now' = now + TickMs
  /\ UNCHANGED <<store, req, sheet, sheetsConfigured, hits, admitted, limited>>

\* the pipeline: concurrent requests, every call settles, the sheet sink is
\* not configured
Next ==
  \/ \E i \in DOMAIN req : \E sub \in Submissions : Register(i, "10.0.0.1", sub)
  \/ \E i \in DOMAIN req : \E ok \in BOOLEAN : FindOneReturn(i, ok)
  \/ \E i \in DOMAIN req : \E o \in ProviderOutcomes : UploadReturn(i, o)
  \/ \E i \in DOMAIN req : \E ok \in BOOLEAN : InsertOneReturn(i, ok)
  \/ \E i \in DOMAIN req : MirrorRun(i, "appended")
  \/ \E i \in DOMAIN req : \E id \in LookupIds : \E ok \in BOOLEAN :
       GetRegistration(i, id, ok)

Spec == Init /\ [][Next]_vars

\* one request on its own: every form, every provider outcome, calls that
\* never settle, the sheet sink configured or not
WideNext ==
  \/ \E i \in DOMAIN req : \E sub \in WideSubmissions : Register(i, "10.0.0.1", sub)
  \/ \E i \in DOMAIN req : \E ok \in BOOLEAN : FindOneReturn(i, ok)
  \/ \E i \in DOMAIN req : \E o \in AllProviderOutcomes : UploadReturn(i, o)
  \/ \E i \in DOMAIN req : \E ok \in BOOLEAN : InsertOneReturn(i, ok)
  \/ \E i \in DOMAIN req : Hang(i)
  \/ \E i \in DOMAIN req : InsertOneLost(i)
  \/ \E i \in DOMAIN req : Health(i)
  \/ \E i \in DOMAIN req : \E o \in {"appended", "rejected", "pending"} :
       MirrorRun(i, o)
  \/ \E i \in DOMAIN req : \E id \in WideLookupIds : \E ok \in BOOLEAN :
       GetRegistration(i, id, ok)

WideSpec == WideInit /\ [][WideNext]_vars

\* as WideSpec, and no step that can be taken is put off forever: the event
\* loop runs every callback that is ready
FairSpec == WideInit /\ [][WideNext]_vars /\ WF_vars(WideNext)

\* the sum of f over the set S of its arguments
RECURSIVE SumAt(_, _)
SumAt(f, S) ==
  IF S = {} THEN 0
  ELSE LET t == CHOOSE x \in S : TRUE IN f[t] + SumAt(f, S \ {t})

\* the POST /api/register requests made so far
Arrivals ==
  SumAt([a \in Addrs |-> limited[a] + SumAt(admitted[a], Times)], Addrs)

\* the submissions of the admission specification: both are answered in the
\* step that admits them
LimitSubmissions ==
  { Submission([Form(Email1) EXCEPT !.phone = Str(BadPhone)], GoodFile),
    Submission(Form(Email1), PdfFile) }

LimitInit ==
  /\ store = <<>>
  /\ req = [i \in {1} |-> IdleReq]
  /\ sheet = <<>>
  /\ sheetsConfigured = FALSE
  /\ LimiterInit

\* admission: requests of two addresses one after the other, while time
\* passes
LimitNext ==
  \/ \E i \in DOMAIN req : \E a \in Addrs : \E sub \in LimitSubmissions :
       Arrivals < NPost /\ Register(i, a, sub)
  \/ \E i \in DOMAIN req : \E id \in {UnknownId} : GetRegistration(i, id, TRUE)
  \/ \E i \in DOMAIN req : Health(i)
  \/ \E i \in DOMAIN req : Close(i)
  \/ Tick

LimitSpec == LimitInit /\ [][LimitNext]_vars

-----------------------------------------------------------------------------
(* properties *)

Registered(i) == req[i].route = "register" /\ req[i].pc # "idle"

Answered201(i) == req[i].pc = "done" /\ req[i].resp.status = 201

\* requests i and j submitted emails that are equal up to case
SameEmail(i, j) ==
  /\ IsStr(req[i].body.email) /\ IsStr(req[j].body.email)
  /\ ToLowerCase(req[i].body.email.v) = ToLowerCase(req[j].body.email.v)

\* the documents of the store whose email equals e up to case
RecordsFor(e) ==
  {k \in 1..Len(store) : ToLowerCase(store[k].email.v) = ToLowerCase(e.v)}

\* the store settled the insert of request i against its unique indexes
InsertSettled(i) == req[i].calls.insertOne \in {"inserted", "duplicate"}

\* C1: no two documents of the store have emails that are equal when
\* compared case-insensitively, whatever the interleaving of the submissions
C1_EmailUnique ==
  \A j, k \in 1..Len(store) :
    j # k => ToLowerCase(store[j].email.v) # ToLowerCase(store[k].email.v)

\* two submissions whose emails differ only in case both reached the insert
C1_Witness ==
  \E i, j \in DOMAIN req :
    /\ Registered(i) /\ Registered(j) /\ SameEmail(i, j)
    /\ req[i].body.email # req[j].body.email
    /\ InsertSettled(i) /\ InsertSettled(j)
    /\ Len(store) = 1

\* i and j are the two submissions of one email that passed the pre-check,
\* the store settled both inserts, and neither drew a ticket id that a
\* document of another email already had
Racing(i, j) ==
  /\ i # j /\ Registered(i) /\ Registered(j)
  /\ req[i].calls.findOne = "null" /\ req[j].calls.findOne = "null"
  /\ InsertSettled(i) /\ InsertSettled(j)
  /\ ~req[i].clash /\ ~req[j].clash
  /\ SameEmail(i, j)
  /\ \A k \in DOMAIN req \ {i, j} :
       ~(Registered(k) /\ SameEmail(i, k) /\ req[k].calls.findOne = "null")

\* C2: of two submissions of one email that both passed the pre-check before
\* either inserted, exactly one is inserted and answered 201, the other is
\* answered the 400 duplicate error, and the store has one document for the
\* email
C2_RaceOneWinner ==
  \A i, j \in DOMAIN req :
    Racing(i, j) =>
      /\ Answered201(i) # Answered201(j)
      /\ \A l \in {i, j} :
           ~Answered201(l) =>
             /\ req[l].pc = "done"
             /\ req[l].resp.status = 400
             /\ req[l].resp.message = "Registration already exists"
      /\ Cardinality(RecordsFor(req[i].body.email)) = 1

C2_Witness == \E i, j \in DOMAIN req : Racing(i, j) /\ req[i].body.email # req[j].body.email

\* i passed validation and no other submission of its email was handled
\* while it ran
Alone(i) ==
  \A k \in DOMAIN req \ {i} :
    ~(Registered(k) /\ SameEmail(i, k) /\ req[k].calls.findOne # "none" /\ ~req[k].sequel)

\* C3: of two submissions of one email (up to case) made one after the other,
\* the first is answered 201 when its three calls succeed, the second is
\* answered a 400 duplicate error when its lookup is answered, and the store
\* has one document for the email
C3_SequentialDuplicate ==
  \A i \in DOMAIN req :
    (Registered(i) /\ req[i].pc = "done") =>
      /\ ( /\ ~req[i].sequel /\ Alone(i)
           /\ req[i].calls.findOne \in {"null", "doc"}
           /\ req[i].calls.upload = "full"
           /\ InsertSettled(i) /\ ~req[i].clash )
         => /\ req[i].resp.status = 201
            /\ Cardinality(RecordsFor(req[i].body.email)) = 1
      /\ (req[i].sequel /\ req[i].calls.findOne \in {"null", "doc"})
         => /\ req[i].resp.status = 400
            /\ req[i].resp.message \in {"Email already registered",
                                        "Registration already exists"}
            /\ req[i].resp.errors = <<>>
            /\ Cardinality(RecordsFor(req[i].body.email)) = 1

\* a first submission answered 201, then one whose email differs in case
\* answered 400
C3_Witness ==
  \E i, j \in DOMAIN req :
    /\ Answered201(i) /\ ~req[i].sequel
    /\ Registered(j) /\ req[j].sequel /\ req[j].pc = "done"
    /\ SameEmail(i, j) /\ req[i].body.email # req[j].body.email
    /\ req[j].resp.status = 400

\* some `if` of the validator does not accept body b with file f
Violates(b, f) ==
  \E k \in 1..Len(RuleNames) : RuleOutcome(RuleNames[k], b, f) # "ok"

\* C4: a submission that violates a validation rule is answered 400 with a
\* non-empty errors list, and calls neither store nor image host nor sheet
C4_ValidationRejects ==
  \A i \in DOMAIN req :
    (Registered(i) /\ upload(req[i].file).kind = "next"
       /\ Violates(req[i].body, req[i].file))
    => /\ req[i].pc = "done"
       /\ req[i].resp.status = 400
       /\ Len(req[i].resp.errors) > 0
       /\ req[i].calls = NoCalls
       /\ req[i].mirror = "none"

\* the provider outcomes that are a failed upload: the network failure, the
\* provider's refusal, and the malformed responses
FailedUploads == {"reject", "failure", "empty", "nodata", "nourl"}

\* C5: a submission whose image upload failed is answered 500, has no
\* document in the store and no sheet append scheduled
C5_UploadFailure ==
  \A i \in DOMAIN req :
    req[i].calls.upload \in FailedUploads =>
      /\ req[i].pc = "done"
      /\ req[i].resp.status = 500
      /\ req[i].calls.insertOne = "none"
      /\ req[i].mirror = "none"

\* C6: once the insert of a submission succeeded its response is 201 and
\* stays so, and the step of the sheet append, whether the row is appended,
\* the call fails or the sink is not configured (then no call is made),
\* changes neither the response nor the store
C6_MirrorIsolated ==
  [][ \A i \in DOMAIN req :
        /\ req'[i].calls.insertOne = "inserted" => Answered201(i)'
        /\ (req[i].mirror = "scheduled" /\ req'[i].mirror # "scheduled")
           => /\ store' = store
              /\ req'[i].resp = req[i].resp
              /\ req'[i].pc = "done"
              /\ ~sheetsConfigured =>
                   (req'[i].calls.append = "none" /\ sheet' = sheet) ]_vars

\* an append failed after a 201
C6_Witness ==
  \E i \in DOMAIN req :
    /\ Answered201(i) /\ req[i].mirror = "done" /\ req[i].calls.append = "rejected"
    /\ Cardinality(RecordsFor(req[i].body.email)) = 1

\* C7: a file of a type that is not allowed, or larger than 5,242,880 bytes,
\* is answered a 400 with a single error string, before any of the pipeline
C7_FileConstraint ==
  \A i \in DOMAIN req :
    (Registered(i) /\ req[i].file # NoFile
       /\ (req[i].file.mimetype \notin allowedTypes \/ req[i].file.size > 5242880))
    => /\ req[i].pc = "done"
       /\ req[i].resp.status \in 400..499
       /\ req[i].resp.error # ""
       /\ req[i].resp.errors = <<>>
       /\ req[i].calls = NoCalls
       /\ req[i].mirror = "none"

\* C8: every admitted submission is eventually answered
C8_EventuallyAnswered ==
  \A i \in {1} : Registered(i) ~> (req[i].pc = "done")

\* C9: the validator never throws: it passes the request on, or answers 400
\* with a non-empty list of messages
C9_ValidatorTotal ==
  \A i \in DOMAIN req :
    (Registered(i) /\ upload(req[i].file).kind = "next")
    => LET v == validateRegistration(req[i].body, req[i].file)
       IN \/ v.kind = "next"
          \/ /\ v.kind = "reject"
             /\ req[i].resp.status = 400
             /\ req[i].resp.errors = v.errors
             /\ Len(v.errors) > 0

\* the ids that are probed: every id a ticket can get, and one none has
ProbeIds == TicketIds \cup {UnknownId}

\* C10: the lookup by the ticket id and by the short id of a document of the
\* store both answer 200 with that document, and the lookup by an id that no
\* document has answers 404 'Registration not found'
C10_LookupEitherId ==
  /\ \A k \in 1..Len(store) :
       /\ lookupResponse(store, store[k].ticketId.v, TRUE).status = 200
       /\ lookupResponse(store, store[k].ticketId.v, TRUE).data = safeData(store[k])
       /\ lookupResponse(store, store[k].shortTicketId.v, TRUE)
            = lookupResponse(store, store[k].ticketId.v, TRUE)
  /\ \A id \in ProbeIds :
       (\A k \in 1..Len(store) :
          store[k].ticketId.v # id /\ store[k].shortTicketId.v # id)
       => /\ lookupResponse(store, id, TRUE).status = 404
          /\ lookupResponse(store, id, TRUE).message = "Registration not found"
  /\ \A i \in DOMAIN req :
       (req[i].route = "lookup" /\ req[i].calls.findOne = "doc")
       => /\ req[i].resp.status = 200
          /\ \E k \in 1..Len(store) :
               /\ req[i].resp.data = safeData(store[k])
               /\ req[i].id \in {store[k].ticketId.v, store[k].shortTicketId.v}

\* a lookup by short id was answered 200 with the document of the store
C10_Witness ==
  /\ Len(store) = 1
  /\ \E i \in DOMAIN req :
       /\ req[i].route = "lookup" /\ req[i].resp.status = 200
       /\ req[i].id = store[1].shortTicketId.v

\* C11: no response carries transactionScreenshotDeleteUrl: the data of a 200
\* lookup response are the fields of the stored document except that one, the
\* data of a 201 response are ticketId, shortTicketId and email, and every
\* other response has no data
C11_NoDeleteUrl ==
  \A i \in DOMAIN req :
    LET data == req[i].resp.data
    IN /\ "transactionScreenshotDeleteUrl" \notin DOMAIN data
       /\ (req[i].route = "lookup" /\ req[i].resp.status = 200)
          => \E k \in 1..Len(store) :
               /\ DOMAIN data = (DOMAIN store[k]) \ {"transactionScreenshotDeleteUrl"}
               /\ \A f \in DOMAIN data : data[f] = store[k][f]
       /\ (req[i].route = "register" /\ req[i].resp.status = 201)
          => DOMAIN data = {"ticketId", "shortTicketId", "email"}
       /\ req[i].resp.status \notin {200, 201} => data = NoData

\* a lookup by the full id was answered 200 for a document that has a delete
\* url
C11_Witness ==
  \E i \in DOMAIN req : \E k \in 1..Len(store) :
    /\ req[i].route = "lookup" /\ req[i].resp.status = 200
    /\ req[i].id = store[k].ticketId.v
    /\ store[k].transactionScreenshotDeleteUrl = Str(DeleteUrl)

\* a request answered by the limiter ran nothing of the pipeline, and the
\* lookup and the health check are never answered by the limiter
LimitedCleanly ==
  \A i \in DOMAIN req :
    /\ (req[i].route = "register" /\ req[i].resp.status = 429)
       => /\ req[i].pc = "done"
          /\ req[i].resp.errors = <<>>
          /\ req[i].calls = NoCalls
          /\ req[i].mirror = "none"
    /\ req[i].route \in {"lookup", "health"} => req[i].resp.status # 429

\* the requests of address a admitted at a time t with from <= t < to
AdmittedIn(a, from, to) ==
  SumAt(admitted[a], {t \in Times : from <= t /\ t < to})

\* C12 as stated: in any 15 minutes at most 5 requests of one address are
\* admitted, the others are answered before any of the pipeline runs, and
\* lookup and health requests are never limited
C12_AnyWindow ==
  /\ \A a \in Addrs : \A from \in Times :
       AdmittedIn(a, from, from + windowMs) <= max
  /\ LimitedCleanly

\* C12 as amended: in each window of the limiter (the 15 minutes that start
\* with the first request of an address after its previous window ended) the
\* first 5 requests of the address are admitted and no other, the others are
\* answered 429 before any of the pipeline runs, and lookup and health
\* requests are never limited
C12_PerLimiterWindow ==
  /\ \A a \in Addrs :
       AdmittedIn(a, hits[a].resetTime - windowMs, hits[a].resetTime)
         = IF hits[a].totalHits > max THEN max ELSE hits[a].totalHits
  /\ LimitedCleanly

\* an address was limited in its first window and admitted again in its
\* second
C12_Witness ==
  \E a \in Addrs :
    /\ limited[a] > 0
    /\ hits[a].resetTime > windowMs
    /\ AdmittedIn(a, 0, windowMs) = max
    /\ AdmittedIn(a, hits[a].resetTime - windowMs, hits[a].resetTime) > 0

\* x is a string whose trimmed length is at least n
LongEnough(x, n) == IsStr(x) /\ Len(Trim(x.v)) >= n

\* rule r as the validation rules state it is violated by body b and file f
RuleViolated(r, b, f) ==
  CASE r = "fullName" -> ~LongEnough(b.fullName, 2)
    [] r = "email"    -> ~(IsStr(b.email) /\ emailRegex(b.email.v))
    [] r = "phone"    -> ~(IsStr(b.phone) /\ phoneRegex(b.phone.v))
    [] r = "college"  -> ~LongEnough(b.college, 2)
    [] r = "branch"   -> ~LongEnough(b.branch, 2)
    [] r = "year"     ->
         ~(IsStr(b.year) /\ b.year.v \in {<<"1">>, <<"2">>, <<"3">>, <<"4">>})
    [] r = "gender"   ->
         ~(IsStr(b.gender) /\ ToLowerCase(b.gender.v) \in
             {<<"m", "a", "l", "e">>, <<"f", "e", "m", "a", "l", "e">>,
              <<"o", "t", "h", "e", "r">>})
    [] r = "accommodation"  ->
         ~(IsStr(b.accommodation)
             /\ b.accommodation.v \in {<<"y", "e", "s">>, <<"n", "o">>})
    [] r = "foodPreference" ->
         ~(IsStr(b.foodPreference) /\ b.foodPreference.v \in
             {<<"v", "e", "g">>, <<"n", "o", "n", "-", "v", "e", "g">>})
    [] r = "ieeeStatus"     -> b.ieeeStatus \notin {Member, NonMember}
    [] r = "ieeeMembershipId" ->
         b.ieeeStatus = Member /\ ~LongEnough(b.ieeeMembershipId, 5)
    [] r = "ticketType"     ->
         ~(IsStr(b.ticketType) /\ b.ticketType.v \in
             {<<"i", "e", "e", "e">>, <<"n", "o", "n", "-", "i", "e", "e", "e">>})
    [] r = "agreeToTerms"   ->
         b.agreeToTerms \notin {Bool(TRUE), Str(<<"t", "r", "u", "e">>)}
    [] OTHER                -> f = NoFile

\* the messages of the violated rules, in the order of the rules
ViolationList(b, f) ==
  LET failed == SelectSeq(RuleNames, LAMBDA r : RuleViolated(r, b, f))
  IN [k \in 1..Len(failed) |-> RuleMessage(failed[k])]

\* C13: the validator answers with exactly one message for each violated
\* rule and none for a satisfied rule, in the order of the rules, and it
\* accepts the form iff no rule is violated
C13_AllRulesListed ==
  \A i \in DOMAIN req :
    (Registered(i) /\ req[i].resp.status # 429
       /\ upload(req[i].file).kind = "next")
    => LET list == ViolationList(req[i].body, req[i].file)
       IN IF list = <<>>
          THEN validateRegistration(req[i].body, req[i].file).kind = "next"
          ELSE /\ req[i].pc = "done"
               /\ req[i].resp.status = 400
               /\ req[i].resp.errors = list

\* the same for the forms whose fields are strings or absent
C13_StringForms ==
  \A i \in DOMAIN req :
    ( /\ \A fld \in FieldNames : req[i].body[fld].t \in {"str", "undef"}
      /\ Registered(i) /\ req[i].resp.status # 429
      /\ upload(req[i].file).kind = "next" )
    => LET list == ViolationList(req[i].body, req[i].file)
       IN IF list = <<>>
          THEN validateRegistration(req[i].body, req[i].file).kind = "next"
          ELSE /\ req[i].pc = "done"
               /\ req[i].resp.status = 400
               /\ req[i].resp.errors = list

HexChars == {"0", "1", "2", "3", "4", "5", "6", "7", "8", "9",
             "a", "b", "c", "d", "e", "f"}

\* short is "THM-" and the first 8 characters of full, which are lower-case
\* hex digits and end the first segment of full
ShortOf(short, full) ==
  /\ Len(short) = 12
  /\ SubSeq(short, 1, 4) = <<"T", "H", "M", "-">>
  /\ SubSeq(short, 5, 12) = SubSeq(full, 1, 8)
  /\ \A k \in 5..12 : short[k] \in HexChars
  /\ full[9] = "-"

\* C14: the shortTicketId of every generated ticketId, of every document of
\* the store and of every 201 response is "THM-" followed by the 8 lower-case
\* hex characters of the first segment of its ticketId
C14_ShortIdFormat ==
  /\ \A k \in 1..Len(store) : ShortOf(store[k].shortTicketId.v, store[k].ticketId.v)
  /\ \A i \in DOMAIN req :
       /\ req[i].fullTicketId # <<>>
          => ShortOf(generateShortTicketId(req[i].fullTicketId), req[i].fullTicketId)
       /\ Answered201(i)
          => ShortOf(req[i].resp.data.shortTicketId.v, req[i].resp.data.ticketId.v)

\* two documents with different short ids are in the store
C14_Witness ==
  /\ Len(store) = 2
  /\ store[1].shortTicketId # store[2].shortTicketId
  /\ \E i \in DOMAIN req : Answered201(i) /\ req[i].resp.data.ticketId = store[2].ticketId

\* C15: in every document of the store ieeeMembershipId is non-null iff
\* ieeeStatus is "member"; a member's id is a trimmed string of at least 5
\* characters, a non-member's is null whatever was submitted
C15_MembershipId ==
  /\ \A k \in 1..Len(store) :
       /\ (store[k].ieeeMembershipId # Null) <=> (store[k].ieeeStatus = Member)
       /\ store[k].ieeeStatus \in {Member, NonMember}
       /\ store[k].ieeeStatus = Member
          => /\ IsStr(store[k].ieeeMembershipId)
             /\ Len(store[k].ieeeMembershipId.v) >= 5
             /\ Trim(store[k].ieeeMembershipId.v) = store[k].ieeeMembershipId.v
  /\ \A i \in DOMAIN req :
       (req[i].calls.insertOne = "inserted" /\ req[i].body.ieeeStatus = NonMember)
       => \E k \in 1..Len(store) :
            /\ store[k].email = NormalEmail(req[i].body)
            /\ store[k].ieeeMembershipId = Null

\* a member's document whose id was trimmed is in the store
C15_Witness ==
  /\ Len(store) = 1
  /\ store[1].ieeeStatus = Member
  /\ req[1].body.ieeeMembershipId # store[1].ieeeMembershipId
  /\ Len(store[1].ieeeMembershipId.v) = 5

\* the provider outcomes that uploadToImgBB returns as a result
ReturnedUploads == {o \in AllProviderOutcomes : ~uploadToImgBB(o).threw}

\* the provider outcomes that are a successful upload: the provider reports
\* success and gives the url and the delete url
SucceededUploads == AllProviderOutcomes \ FailedUploads

\* call c of request i is not made, is made once, and settles once
CalledOnce(i, c) ==
  /\ req[i].calls[c] # "none" => req'[i].calls[c] # "none"
  /\ req[i].calls[c] \notin {"none", "pending"} => req'[i].calls[c] = req[i].calls[c]

\* the steps of the submission of request i are taken in the order of the
\* handler, the insert after an upload with an outcome of the set uploaded
InOrder(i, uploaded) ==
  /\ (req[i].calls.findOne = "none" /\ req'[i].calls.findOne # "none"
        /\ req'[i].route = "register")
     => /\ upload(req'[i].file).kind = "next"
        /\ validateRegistration(req'[i].body, req'[i].file).kind = "next"
        /\ req'[i].calls.findOne = "pending"
  /\ (req[i].fullTicketId = <<>> /\ req'[i].fullTicketId # <<>>)
     => /\ req[i].calls.findOne = "pending" /\ req'[i].calls.findOne = "null"
        /\ req[i].calls.upload = "none"
  /\ (req[i].calls.upload = "none" /\ req'[i].calls.upload # "none")
     => /\ req'[i].calls.findOne = "null"
        /\ req'[i].fullTicketId \in UuidPool
        /\ req'[i].calls.upload = "pending"
  /\ (req[i].calls.insertOne = "none" /\ req'[i].calls.insertOne # "none")
     => /\ req[i].calls.upload = "pending"
        /\ req'[i].calls.upload \in uploaded
        /\ req'[i].calls.insertOne = "pending"
  /\ (req[i].mirror = "none" /\ req'[i].mirror # "none")
     => /\ req[i].calls.insertOne = "pending"
        /\ req'[i].calls.insertOne = "inserted"
        /\ req'[i].mirror = "scheduled"
  /\ CalledOnce(i, "findOne") /\ CalledOnce(i, "upload") /\ CalledOnce(i, "insertOne")

\* C16: in one submission validation, the duplicate lookup, the generation
\* of the ids, the upload, the insert and the scheduling of the mirror happen
\* in this order: no upload before the lookup returned 'not found', no insert
\* before the upload succeeded, no call made twice, and a 201 only after all
\* of them
C16_StepOrder ==
  /\ [][\A i \in DOMAIN req : InOrder(i, SucceededUploads)]_vars
  /\ [](\A i \in DOMAIN req :
          Answered201(i)
          => /\ validateRegistration(req[i].body, req[i].file).kind = "next"
             /\ req[i].calls.findOne = "null"
             /\ req[i].calls.upload \in SucceededUploads
             /\ req[i].calls.insertOne = "inserted"
             /\ req[i].mirror # "none")

\* the same order with the upload read as the handler reads it: the insert
\* follows an upload for which uploadToImgBB returned a result
StepOrderAsCoded ==
  /\ [][\A i \in DOMAIN req : InOrder(i, ReturnedUploads)]_vars
  /\ [](\A i \in DOMAIN req :
          Answered201(i)
          => /\ validateRegistration(req[i].body, req[i].file).kind = "next"
             /\ req[i].calls.findOne = "null"
             /\ req[i].calls.upload \in ReturnedUploads
             /\ req[i].calls.insertOne = "inserted"
             /\ req[i].mirror # "none")

\* the step in which the append of request i is attempted: its document is
\* in the store, after a submission that passed validation, met no duplicate,
\* had an upload with an outcome of the set uploaded and was inserted
AppendAfterInsert(i, uploaded) ==
  (req[i].calls.append = "none" /\ req'[i].calls.append # "none")
  => /\ sheetsConfigured
     /\ req[i].mirror = "scheduled"
     /\ validateRegistration(req[i].body, req[i].file).kind = "next"
     /\ req[i].calls.findOne = "null"
     /\ req[i].calls.upload \in uploaded
     /\ req[i].calls.insertOne = "inserted"
     /\ \E k \in 1..Len(store) : store[k].ticketId = req[i].resp.data.ticketId

\* once the callback of request i ran, one append was attempted if the sink
\* is configured and none if it is not
AppendCount(i) ==
  req[i].mirror \in {"running", "done"}
  => (req[i].calls.append # "none") = sheetsConfigured

\* C17: an append is attempted only for a document that is in the store,
\* never for a submission that failed validation, met a duplicate, or whose
\* upload or insert failed; it is attempted at most once for a document, and
\* once when the sink is configured
C17_AppendOnlyPersisted ==
  /\ [][\A i \in DOMAIN req :
          AppendAfterInsert(i, SucceededUploads) /\ CalledOnce(i, "append")]_vars
  /\ [](\A i \in DOMAIN req : AppendCount(i))

\* the same with the upload read as the handler reads it
AppendAsCoded ==
  /\ [][\A i \in DOMAIN req :
          AppendAfterInsert(i, ReturnedUploads) /\ CalledOnce(i, "append")]_vars
  /\ [](\A i \in DOMAIN req : AppendCount(i))

\* C18: the 201 response {ticketId, shortTicketId, email} is sent in the step
\* in which the insert succeeded, before the append call begins, and it
\* stands while the append call never completes
C18_ResponseBeforeAppend ==
  /\ [][\A i \in DOMAIN req :
          /\ (req[i].calls.insertOne = "pending"
                /\ req'[i].calls.insertOne = "inserted")
             => /\ Answered201(i)'
                /\ DOMAIN req'[i].resp.data = {"ticketId", "shortTicketId", "email"}
                /\ req'[i].calls.append = "none"
          /\ (req[i].calls.append = "none" /\ req'[i].calls.append # "none")
             => /\ Answered201(i)
                /\ req'[i].resp = req[i].resp]_vars
  /\ [](\A i \in DOMAIN req : req[i].mirror = "running" => Answered201(i))

\* a 201 was sent and the append call of its document has not completed
C18_Witness ==
  \E i \in DOMAIN req :
    /\ Answered201(i)
    /\ req[i].mirror = "running" /\ req[i].calls.append = "pending"
    /\ Len(sheet) = 0 /\ Len(store) = 1

\* request i made none of the calls that follow the duplicate-email lookup
NothingAfterLookup(r) ==
  /\ r.fullTicketId = <<>>
  /\ r.uploadResult = NoUpload
  /\ r.calls.upload = "none" /\ r.calls.insertOne = "none"
  /\ r.calls.append = "none" /\ r.mirror = "none"

\* C19: when the lookup of a submission is answered while the store has a
\* document of its email, the submission is answered the 400 duplicate-email
\* error, generates no ids, makes no upload, no insert and schedules no
\* mirror, and the store is unchanged; nothing of that happens afterwards
C19_DuplicateExit ==
  /\ [][\A i \in DOMAIN req :
          ( /\ req[i].route = "register"
            /\ req[i].pc = "findOne" /\ req'[i].pc # "findOne"
            /\ req'[i].calls.findOne # "rejected"
            /\ RecordsFor(req[i].body.email) # {} )
          => /\ req'[i].pc = "done"
             /\ req'[i].calls.findOne = "doc"
             /\ req'[i].resp.status = 400
             /\ req'[i].resp.message = "Email already registered"
             /\ NothingAfterLookup(req'[i])
             /\ store' = store /\ sheet' = sheet]_vars
  /\ [](\A i \in DOMAIN req :
          (req[i].route = "register" /\ req[i].calls.findOne = "doc")
          => /\ req[i].pc = "done" /\ req[i].resp.status = 400
             /\ NothingAfterLookup(req[i]))

\* a submission whose lookup found the document of an earlier one
C19_Witness ==
  \E i \in DOMAIN req :
    /\ req[i].route = "register"
    /\ req[i].calls.findOne = "doc" /\ req[i].pc = "done"
    /\ req[i].resp.message = "Email already registered"
    /\ Len(store) = 1 /\ store[1].email = NormalEmail(req[i].body)

\* the handler of request i holds a ticket id whose first segment is that of
\* the ticket id of a stored document, and its email is not in the store
PrefixClash(i) ==
  /\ req[i].route = "register" /\ req[i].pc = "insertOne"
  /\ RecordsFor(req[i].body.email) = {}
  /\ \E k \in 1..Len(store) :
       FirstSegment(store[k].ticketId.v) = FirstSegment(req[i].fullTicketId)

\* C20: ticketId and shortTicketId are unique in the store; a submission of a
\* new email whose ticket id shares its first 8 characters with a stored
\* ticket id has its insert rejected, is answered the 400 duplicate error,
\* adds no document and draws no second pair of ids
C20_IdsUniqueNoRetry ==
  /\ [](\A j, k \in 1..Len(store) :
          j # k => /\ store[j].ticketId # store[k].ticketId
                   /\ store[j].shortTicketId # store[k].shortTicketId)
  /\ [][\A i \in DOMAIN req :
          ( /\ PrefixClash(i)
            /\ req'[i].pc # "insertOne"
            /\ req'[i].calls.insertOne # "rejected" )
          => /\ req'[i].calls.insertOne = "duplicate"
             /\ req'[i].pc = "done"
             /\ req'[i].resp.status = 400
             /\ req'[i].resp.message = "Registration already exists"
             /\ req'[i].fullTicketId = <<>>
             /\ req'[i].mirror = "none"
             /\ store' = store]_vars
  /\ [][\A i \in DOMAIN req :
          (req[i].route = "register" /\ req[i].calls.insertOne = "duplicate")
          => req'[i] = req[i]]_vars

\* a submission of a new email was refused for its ticket ids alone
C20_Witness ==
  \E i \in DOMAIN req :
    /\ req[i].route = "register" /\ req[i].pc = "done"
    /\ req[i].calls.insertOne = "duplicate" /\ req[i].clash
    /\ req[i].resp.status = 400
    /\ Len(store) = 1 /\ store[1].email # NormalEmail(req[i].body)

\* document d carries the ids and the lower-cased email of the 201 response
\* of request r, and status 'pending'
RecordOf(d, r) ==
  /\ d.ticketId = r.resp.data.ticketId
  /\ d.shortTicketId = r.resp.data.shortTicketId
  /\ d.email = r.resp.data.email
  /\ d.email.v = ToLowerCase(r.body.email.v)
  /\ d.status = "pending"

\* request i is answered 201 in this step
Gets201(i) == ~Answered201(i) /\ Answered201(i)'

\* C21: a submission is answered 201 exactly when it adds one document, which
\* carries the ids and lower-cased email of the response and status
\* 'pending'; a submission answered 400 or 500 leaves the store unchanged;
\* no step modifies or removes a document
C21_CreatedIffAnswered ==
  [][ /\ Len(store') >= Len(store)
      /\ SubSeq(store', 1, Len(store)) = store
      /\ store' # store
         => /\ Len(store') = Len(store) + 1
            /\ \E i \in DOMAIN req :
                 Gets201(i) /\ RecordOf(store'[Len(store')], req'[i])
      /\ \A i \in DOMAIN req :
           /\ Gets201(i)
              => /\ Len(store') = Len(store) + 1
                 /\ RecordOf(store'[Len(store')], req'[i])
           /\ ( /\ req[i].route = "register"
                /\ req[i].pc # "done" /\ req'[i].pc = "done"
                /\ req'[i].resp.status # 201 )
              => store' = store ]_vars

=============================================================================
